---------------------------- MODULE Spec2Model ----------------------------
(***************************************************************************)
(* FAQ retrieval chatbot (src/src/utils.py, chat.py, evaluate.py,          *)
(* train.py): text normalisation, Boolean and BM25 scoring, the matcher    *)
(* get_answer_with_source and the leave-one-out evaluator.                 *)
(*                                                                         *)
(* Representation.                                                         *)
(*   - A str is a sequence of Unicode code points (97 = "a", 32 = " ",     *)
(*     1080 = CYRILLIC SMALL LETTER I, ...); a token is a str.             *)
(*   - A float is a fixed-point integer counting units of 1/SCALE; the     *)
(*     float -inf is NegInf, an integer below every finite score.          *)
(*   - A Python dict / Counter is a function whose DOMAIN is its key set.  *)
(***************************************************************************)
EXTENDS Integers, Sequences, FiniteSets, TLC

VARIABLES pc, index, call, ev, nrm, bm, bl, th, chat

vars == <<pc, index, call, ev, nrm, bm, bl, th, chat>>

-----------------------------------------------------------------------------
(* Bounds of the model *)

\* longest raw text drawn by SpecNormalize
MaxTextLen == 4

\* most rows in the CSV sources
MaxRows == 2

\* most documents handed to build_bm25_index by SpecBm25
MaxBmDocs == 3

\* score_boolean is checked on query token lists of at most MaxQueryLen tokens
MaxQueryLen == 3

\* ... against at most MaxBoolDocs documents
MaxBoolDocs == 2

-----------------------------------------------------------------------------
(* Generic helpers *)

Range(s) == {s[i] : i \in 1..Len(s)}

SeqsUpTo(S, n) == UNION {[1..k -> S] : k \in 0..n}

-----------------------------------------------------------------------------
(* utils.py: stopword tables *)

EN_STOPWORDS ==
    { <<97>>,                   \* a
      <<97, 110>>,              \* an
      <<116, 104, 101>>,        \* the
      <<105, 115>>,             \* is
      <<97, 114, 101>>,         \* are
      <<97, 109>>,              \* am
      <<119, 97, 115>>,         \* was
      <<119, 101, 114, 101>>,   \* were
      <<116, 111>>,             \* to
      <<102, 111, 114>>,        \* for
      <<111, 102>>,             \* of
      <<97, 110, 100>>,         \* and
      <<111, 114>>,             \* or
      <<105, 110>>,             \* in
      <<111, 110>>,             \* on
      <<97, 116>>,              \* at
      <<104, 111, 119>>,        \* how
      <<119, 104, 97, 116>> }   \* what

RU_STOPWORDS ==
    { <<1080>>,                 \* U+0438
      <<1074>>,                 \* U+0432
      <<1085, 1072>>,           \* U+043D U+0430
      <<1089>>,                 \* U+0441
      <<1087, 1086>>,           \* U+043F U+043E
      <<1086>>,                 \* U+043E
      <<1095, 1090, 1086>>,     \* U+0447 U+0442 U+043E
      <<1082, 1072, 1082>>,     \* U+043A U+0430 U+043A
      <<1101, 1090, 1086>>,     \* U+044D U+0442 U+043E
      <<1076, 1083, 1103>>,     \* U+0434 U+043B U+044F
      <<1082>>,                 \* U+043A
      <<1080, 1079>> }          \* U+0438 U+0437

-----------------------------------------------------------------------------
(* Python str primitives used by the sources *)

\* str.lower() on one code point: A-Z, U+0410..U+042F and U+0401 have a
\* lower-case partner; every other code point the model draws is unchanged.
lower_char(c) ==
    IF c >= 65 /\ c <= 90 THEN c + 32
    ELSE IF c >= 1040 /\ c <= 1071 THEN c + 32
    ELSE IF c = 1025 THEN 1105
    ELSE c

lower(text) == [i \in 1..Len(text) |-> lower_char(text[i])]

\* str whitespace (space, tab, newline, carriage return)
is_space(c) == c \in {32, 9, 10, 13}

RECURSIVE lstrip(_)
lstrip(text) ==
    IF text # <<>> /\ is_space(Head(text)) THEN lstrip(Tail(text)) ELSE text

RECURSIVE rstrip(_)
rstrip(text) ==
    IF text # <<>> /\ is_space(text[Len(text)])
    THEN rstrip(SubSeq(text, 1, Len(text) - 1))
    ELSE text

strip(text) == rstrip(lstrip(text))

startswith(text, prefix) ==
    /\ Len(text) >= Len(prefix)
    /\ SubSeq(text, 1, Len(prefix)) = prefix

\* str.replace(old, new) for single code points
replace(text, old, new) ==
    [i \in 1..Len(text) |-> IF text[i] = old THEN new ELSE text[i]]

RECURSIVE join(_, _)
\* sep.join(parts)
join(sep, parts) ==
    IF parts = <<>> THEN <<>>
    ELSE IF Len(parts) = 1 THEN Head(parts)
    ELSE Head(parts) \o sep \o join(sep, Tail(parts))

\* the character class [a-zA-Z0-9] plus U+0430-U+044F, U+0410-U+042F, U+0451, U+0401 of tokenize
is_token_char(c) ==
    \/ c >= 97 /\ c <= 122
    \/ c >= 65 /\ c <= 90
    \/ c >= 1072 /\ c <= 1103
    \/ c >= 1040 /\ c <= 1071
    \/ c = 1105
    \/ c = 1025
    \/ c >= 48 /\ c <= 57

\* c belongs to a run of the given kind: "token" for the class of tokenize,
\* "word" for anything but whitespace
in_run(kind, c) == IF kind = "token" THEN is_token_char(c) ELSE ~is_space(c)

RECURSIVE runs(_, _, _, _, _)
\* the maximal runs of code points of text of the given kind, left to right
\* (re.findall of a one-class pattern with +, and str.split)
runs(kind, text, i, cur, acc) ==
    IF i > Len(text)
    THEN IF cur = <<>> THEN acc ELSE Append(acc, cur)
    ELSE IF in_run(kind, text[i])
         THEN runs(kind, text, i + 1, Append(cur, text[i]), acc)
         ELSE runs(kind, text, i + 1, <<>>,
                   IF cur = <<>> THEN acc ELSE Append(acc, cur))

\* str.split() with no argument: split on runs of whitespace, no empty parts
split(text) == runs("word", text, 1, <<>>, <<>>)

-----------------------------------------------------------------------------
(* utils.py: normalisation *)

\* the character class U+0430-U+044F plus U+0451
is_cyrillic_lower(c) == (c >= 1072 /\ c <= 1103) \/ c = 1105

contains_cyrillic(text) ==
    \E i \in 1..Len(text) : is_cyrillic_lower(lower(text)[i])

tokenize(text) == runs("token", lower(text), 1, <<>>, <<>>)

\* a list comprehension [t for t in tokens if t not in stop]
without(tokens, stop) == SelectSeq(tokens, LAMBDA t : t \notin stop)

\* bug variant: stopwords are looked up before the text is lower-cased
normalize_text_lower_late(text) ==
    LET tokens == runs("token", text, 1, <<>>, <<>>)
        cleaned == IF contains_cyrillic(text)
                   THEN without(tokens, RU_STOPWORDS)
                   ELSE without(tokens, EN_STOPWORDS)
    IN  IF tokens = <<>> THEN <<>>
        ELSE join(<<32>>, [i \in 1..Len(cleaned) |-> lower(cleaned[i])])

normalize_text(text) ==
    LET tokens == tokenize(text)
    IN  IF tokens = <<>> THEN <<>>
        ELSE IF contains_cyrillic(text)
             THEN join(<<32>>, without(tokens, RU_STOPWORDS))
             ELSE join(<<32>>, without(tokens, EN_STOPWORDS))

-----------------------------------------------------------------------------
(* Floats as fixed-point integers *)

\* one float unit: the float 1.0
SCALE == 100 * 100

\* float('-inf'): below every finite score the scorers can produce
NegInf == 0 - SCALE * SCALE

\* a * b and a / b on floats (b # 0)
FMul(a, b) == (a * b) \div SCALE
FDiv(a, b) == (a * SCALE) \div b

\* float(n) for an int n
F(n) == n * SCALE

RECURSIVE atanh_series(_, _, _)
\* sum of pow / k, pow * z2 / (k + 2), ... : the series of atanh
atanh_series(pow, z2, k) ==
    IF pow = 0 THEN 0
    ELSE pow \div k + atanh_series(FMul(pow, z2), z2, k + 2)

\* ln x for x >= 1.0, as 2 * atanh((x - 1) / (x + 1))
log_ge1(x) ==
    LET z == FDiv(x - SCALE, x + SCALE)
    IN  2 * atanh_series(z, FMul(z, z), 1)

\* math.log(x), x > 0
log(x) == IF x >= SCALE THEN log_ge1(x) ELSE 0 - log_ge1(FDiv(SCALE, x))

RECURSIVE Sum(_, _)
\* sum(f[x] for x in S)
Sum(f, S) ==
    IF S = {} THEN 0
    ELSE LET x == CHOOSE y \in S : TRUE IN f[x] + Sum(f, S \ {x})

\* collections.Counter(tokens)
Counter(tokens) ==
    [t \in Range(tokens) |-> Cardinality({i \in 1..Len(tokens) : tokens[i] = t})]

-----------------------------------------------------------------------------
(* utils.py: Boolean retrieval *)

\* bug variant: the overlap is divided by the size of the document
score_boolean_by_doc(query_tokens, doc_tokens) ==
    IF query_tokens = <<>>
    THEN [i \in 1..Len(doc_tokens) |-> 0]
    ELSE LET query_set == Range(query_tokens)
         IN  [i \in 1..Len(doc_tokens) |->
                LET doc_set == Range(doc_tokens[i])
                    matches == Cardinality(query_set \cap doc_set)
                IN  IF doc_set = {} THEN 0
                    ELSE FDiv(F(matches), F(Cardinality(doc_set)))]

\* bug variant: the overlap is divided by the number of query tokens,
\* duplicates counted
score_boolean_per_token(query_tokens, doc_tokens) ==
    IF query_tokens = <<>>
    THEN [i \in 1..Len(doc_tokens) |-> 0]
    ELSE LET query_set == Range(query_tokens)
         IN  [i \in 1..Len(doc_tokens) |->
                LET doc_set == Range(doc_tokens[i])
                    matches == Cardinality(query_set \cap doc_set)
                IN  FDiv(F(matches), F(Len(query_tokens)))]

score_boolean(query_tokens, doc_tokens) ==
    IF query_tokens = <<>>
    THEN [i \in 1..Len(doc_tokens) |-> 0]
    ELSE LET query_set == Range(query_tokens)
         IN  [i \in 1..Len(doc_tokens) |->
                LET doc_set == Range(doc_tokens[i])
                    matches == Cardinality(query_set \cap doc_set)
                IN  FDiv(F(matches), F(Cardinality(query_set)))]

-----------------------------------------------------------------------------
(* utils.py: BM25 *)

\* bug variant: the classic Robertson-Sparck Jones IDF, without the "1 +"
idf_value_classic(total_docs, freq) ==
    log(FDiv(F(total_docs - freq) + SCALE \div 2, F(freq) + SCALE \div 2))

\* the IDF of a term found in freq of total_docs documents
idf_value(total_docs, freq) ==
    log(SCALE + FDiv(F(total_docs - freq) + SCALE \div 2, F(freq) + SCALE \div 2))

\* the non-degenerate part of build_bm25_index (lines 146-168); the division
\* by total_docs raises ZeroDivisionError when there is no document
build_bm25_nonempty(doc_tokens) ==
    LET total_docs == Len(doc_tokens)
        doc_term_freqs == [i \in 1..total_docs |-> Counter(doc_tokens[i])]
        doc_lengths == [i \in 1..total_docs |-> Len(doc_tokens[i])]
        terms == UNION {DOMAIN doc_term_freqs[i] : i \in 1..total_docs}
        doc_freq == [t \in terms |->
                        Cardinality({i \in 1..total_docs :
                                        t \in DOMAIN doc_term_freqs[i]})]
        total_length == Sum(doc_lengths, 1..total_docs)
    IN  IF total_docs = 0
        THEN [raised |-> TRUE, idf |-> <<>>, doc_term_freqs |-> <<>>,
              doc_lengths |-> <<>>, avg_doc_length |-> 0,
              k1 |-> 0, b |-> 0]
        ELSE [raised |-> FALSE,
              idf |-> [t \in terms |-> idf_value(total_docs, doc_freq[t])],
              doc_term_freqs |-> doc_term_freqs,
              doc_lengths |-> doc_lengths,
              avg_doc_length |-> FDiv(F(total_length), F(total_docs)),
              k1 |-> (3 * SCALE) \div 2,
              b |-> (3 * SCALE) \div 4]

\* bug variant: no early return for the empty document list
build_bm25_index_unguarded(doc_tokens) == build_bm25_nonempty(doc_tokens)

build_bm25_index(doc_tokens) ==
    IF Len(doc_tokens) = 0
    THEN [raised |-> FALSE, idf |-> <<>>, doc_term_freqs |-> <<>>,
          doc_lengths |-> <<>>, avg_doc_length |-> 0,
          k1 |-> (3 * SCALE) \div 2,
          b |-> (3 * SCALE) \div 4]
    ELSE build_bm25_nonempty(doc_tokens)

\* one pass of the inner loop (lines 190-197) for a term the document has:
\* [raised, v], raised when a division has a zero divisor
bm25_term(term, qf, term_freqs, doc_length, bm25_index) ==
    LET idf == bm25_index.idf
        avg_doc_length == bm25_index.avg_doc_length
        k1 == bm25_index.k1
        b == bm25_index.b
        term_idf == IF term \in DOMAIN idf THEN idf[term] ELSE 0
        term_tf == term_freqs[term]
        numerator == term_tf * (k1 + SCALE)
        denominator ==
            F(term_tf)
              + FMul(k1, SCALE - b + FMul(b, FDiv(F(doc_length), avg_doc_length)))
    IN  IF avg_doc_length = 0 THEN [raised |-> TRUE, v |-> 0]
        ELSE IF denominator = 0 THEN [raised |-> TRUE, v |-> 0]
        ELSE [raised |-> FALSE,
              v |-> FMul(term_idf, FDiv(numerator, denominator)) * qf]

\* the score of one document (lines 189-198)
bm25_doc(query_terms, term_freqs, doc_length, bm25_index) ==
    LET present == DOMAIN query_terms \cap DOMAIN term_freqs
        part == [t \in present |->
                    bm25_term(t, query_terms[t], term_freqs, doc_length, bm25_index)]
    IN  [raised |-> \E t \in present : part[t].raised,
         v |-> Sum([t \in present |-> part[t].v], present)]

\* [raised, scores]: raised when the call ends in ZeroDivisionError
score_bm25(query_tokens, bm25_index) ==
    LET doc_term_freqs == bm25_index.doc_term_freqs
        doc_lengths == bm25_index.doc_lengths
        n == Len(doc_term_freqs)
    IN  IF query_tokens = <<>>
        THEN [raised |-> FALSE, scores |-> [i \in 1..n |-> 0]]
        ELSE IF bm25_index.avg_doc_length = 0
        THEN [raised |-> FALSE, scores |-> [i \in 1..n |-> 0]]
        ELSE LET query_terms == Counter(query_tokens)
                 \* zip() stops at the shorter of the two lists
                 m == IF Len(doc_lengths) < n THEN Len(doc_lengths) ELSE n
                 doc == [i \in 1..m |->
                           bm25_doc(query_terms, doc_term_freqs[i],
                                    doc_lengths[i], bm25_index)]
             IN  [raised |-> \E i \in 1..m : doc[i].raised,
                  scores |-> [i \in 1..m |-> doc[i].v]]

-----------------------------------------------------------------------------
(* Python dict and list primitives *)

\* d.get(key, default)
get(d, key, default) == IF key \in DOMAIN d THEN d[key] ELSE default

\* max(scores), scores non-empty
Max(scores) == CHOOSE m \in Range(scores) : \A v \in Range(scores) : v <= m

\* bug variant: on ties the last index wins
argmax_last(scores) ==
    CHOOSE i \in 1..Len(scores) :
        /\ \A j \in 1..Len(scores) : scores[j] <= scores[i]
        /\ \A j \in (i + 1)..Len(scores) : scores[j] < scores[i]

\* max(range(len(scores)), key=lambda idx: scores[idx]): max() keeps the
\* first of equal keys (indices count from 1 here, from 0 in the source)
argmax_first(scores) ==
    CHOOSE i \in 1..Len(scores) :
        /\ \A j \in 1..Len(scores) : scores[j] <= scores[i]
        /\ \A j \in 1..(i - 1) : scores[j] < scores[i]

-----------------------------------------------------------------------------
(* chat.py: topics *)

FALLBACK_MESSAGE == "I am not sure about that yet. Please rephrase your question."

\* "web_", "all", "general"
WEB_PREFIX == <<119, 101, 98, 95>>
TOPIC_ALL == <<97, 108, 108>>
TAG_GENERAL == <<103, 101, 110, 101, 114, 97, 108>>

normalized_topic(tag) ==
    LET cleaned == lower(strip(tag))
        cut == IF startswith(cleaned, WEB_PREFIX)
               THEN SubSeq(cleaned, Len(WEB_PREFIX) + 1, Len(cleaned))
               ELSE cleaned
    IN  replace(cut, 32, 95)

-----------------------------------------------------------------------------
(* utils.py, train.py: building an index *)

SUPPORTED_METHODS == {"tfidf", "bow", "bm25", "boolean"}

RECURSIVE intent_rows(_)
\* the (intent, pattern) pairs of intents.json in file order
intent_rows(intents) ==
    IF intents = <<>> THEN <<>>
    ELSE LET intent == Head(intents)
             patterns == get(intent, "patterns", <<>>)
         IN  [j \in 1..Len(patterns) |->
                [tag |-> intent.tag,
                 pattern |-> patterns[j],
                 responses |-> get(intent, "responses", <<>>)]]
             \o intent_rows(Tail(intents))

\* bug variant: an example is kept even when its pattern normalises to ""
prepare_corpus_keep_all(intents_data) ==
    LET rows == intent_rows(get(intents_data, "intents", <<>>))
        kept == SelectSeq(rows, LAMBDA r : normalize_text(r.pattern) # <<>>)
    IN  [corpus |-> [i \in 1..Len(kept) |-> normalize_text(kept[i].pattern)],
         examples |-> rows]

prepare_corpus(intents_data) ==
    LET rows == intent_rows(get(intents_data, "intents", <<>>))
        kept == SelectSeq(rows, LAMBDA r : normalize_text(r.pattern) # <<>>)
    IN  [corpus |-> [i \in 1..Len(kept) |-> normalize_text(kept[i].pattern)],
         examples |-> kept]

prepare_corpus_from_csv_rows(rows) ==
    LET kept == SelectSeq(rows, LAMBDA r : normalize_text(r.question) # <<>>)
    IN  [corpus |-> [i \in 1..Len(kept) |-> normalize_text(kept[i].question)],
         examples |-> [i \in 1..Len(kept) |->
                          [tag |-> WEB_PREFIX \o kept[i].topic,
                           pattern |-> kept[i].question,
                           responses |-> <<kept[i].answer>>,
                           source_url |-> kept[i].source_url]]]

\* [raised, payload]: raised is "" or the name of the exception
train_and_save(method, threshold, intents, csv_rows) ==
    LET from_intents == prepare_corpus(intents)
        from_csv == prepare_corpus_from_csv_rows(csv_rows)
        corpus == from_intents.corpus \o from_csv.corpus
        examples == from_intents.examples \o from_csv.examples
        payload == [method |-> method, examples |-> examples,
                    threshold |-> threshold]
        doc_tokens == [i \in 1..Len(corpus) |-> split(corpus[i])]
    IN  IF corpus = <<>>
        THEN [raised |-> "ValueError", payload |-> [method |-> "none"]]
        ELSE IF method \in {"tfidf", "bow"}
        THEN \* the fitted vectorizer and the document-term matrix belong to
             \* scikit-learn: the matrix is kept as its rows, one per document
             [raised |-> "",
              payload |-> payload @@ [vectorizer |-> method, matrix |-> corpus]]
        ELSE IF method = "bm25"
        THEN [raised |-> "",
              payload |-> payload @@ [bm25_index |-> build_bm25_index(doc_tokens),
                                      doc_tokens |-> doc_tokens]]
        ELSE [raised |-> "", payload |-> payload @@ [doc_tokens |-> doc_tokens]]

-----------------------------------------------------------------------------
(* chat.py: scoring and answer selection *)

\* [raised, scores]. cosine is what cosine_similarity(query_vector, matrix)
\* returned for this call (scikit-learn), read by the tfidf/bow branch only.
compute_scores(normalized_query, index_payload, cosine) ==
    LET method == get(index_payload, "method", "tfidf")
    IN  IF method \in {"tfidf", "bow"}
        THEN [raised |-> "", scores |-> cosine]
        ELSE IF method = "bm25"
        THEN LET r == score_bm25(split(normalized_query), index_payload.bm25_index)
             IN  [raised |-> IF r.raised THEN "ZeroDivisionError" ELSE "",
                  scores |-> r.scores]
        ELSE [raised |-> "",
              scores |-> score_boolean(split(normalized_query),
                                       index_payload.doc_tokens)]

\* the test of line 189: example idx is outside the topic filter
off_topic(examples, idx, topic_filter) ==
    normalized_topic(get(examples[idx], "tag", TAG_GENERAL)) # topic_filter

\* bug variant: the filter is never applied
apply_topic_filter_none(scores, examples, topic_filter) == scores

\* lines 187-190: scores of off-topic examples overwritten in place
apply_topic_filter(scores, examples, topic_filter) ==
    IF topic_filter = TOPIC_ALL THEN scores
    ELSE [idx \in 1..Len(scores) |->
            IF idx <= Len(examples) /\ off_topic(examples, idx, topic_filter)
            THEN NegInf
            ELSE scores[idx]]

\* scores[idx] = ... on an index the list does not have
filter_index_error(scores, examples, topic_filter) ==
    /\ topic_filter # TOPIC_ALL
    /\ \E idx \in 1..Len(examples) :
          off_topic(examples, idx, topic_filter) /\ idx > Len(scores)

\* bug variant: only the empty list is caught
no_candidate_empty_only(scores) == scores = <<>>

\* line 192
no_candidate(scores) == scores = <<>> \/ Max(scores) = NegInf

\* what a return statement hands back, with the call's working values
Returned(kind, answers, score, source_url, normalized, raw, scores, best_idx) ==
    [raised |-> "", kind |-> kind, answers |-> answers, score |-> score,
     source_url |-> source_url, normalized |-> normalized, raw |-> raw,
     scores |-> scores, best_idx |-> best_idx]

Raised(exception, normalized, raw, scores) ==
    [raised |-> exception, kind |-> "raised", answers |-> {""}, score |-> 0,
     source_url |-> "", normalized |-> normalized, raw |-> raw,
     scores |-> scores, best_idx |-> 0]

\* bug variant: the fallback always reports 0.0
below_threshold_zero(best_score) ==
    [answer |-> FALLBACK_MESSAGE, score |-> 0, source_url |-> ""]

\* line 200
below_threshold(best_score) ==
    [answer |-> FALLBACK_MESSAGE, score |-> best_score, source_url |-> ""]

\* lines 181 and 193
no_match == [answer |-> FALLBACK_MESSAGE, score |-> 0, source_url |-> ""]

\* bug variant: an example without responses is reported like no match
matched_as_no_match(example, best_score) ==
    IF example.responses # <<>>
    THEN [answers |-> Range(example.responses), score |-> best_score,
          source_url |-> get(example, "source_url", "")]
    ELSE [answers |-> {FALLBACK_MESSAGE}, score |-> 0, source_url |-> ""]

\* lines 202-205; answers is the set random.choice(responses) draws from
matched(example, best_score) ==
    [answers |-> IF example.responses # <<>> THEN Range(example.responses)
                 ELSE {FALLBACK_MESSAGE},
     score |-> best_score,
     source_url |-> get(example, "source_url", "")]

get_answer_with_source(user_text, index_payload, topic_filter, cosine) ==
    LET normalized == normalize_text(user_text)
        examples == index_payload.examples
        threshold == get(index_payload, "threshold", SCALE \div 4)
        computed == compute_scores(normalized, index_payload, cosine)
        raw == computed.scores
        scores == apply_topic_filter(raw, examples, topic_filter)
        best_idx == argmax_first(scores)
        best_score == scores[best_idx]
        low == below_threshold(best_score)
    IN  IF normalized = <<>>
        THEN Returned("empty_query", {no_match.answer}, no_match.score,
                      no_match.source_url, normalized, <<>>, <<>>, 0)
        ELSE IF computed.raised # ""
        THEN Raised(computed.raised, normalized, <<>>, <<>>)
        ELSE IF filter_index_error(raw, examples, topic_filter)
        THEN Raised("IndexError", normalized, raw, raw)
        ELSE IF no_candidate(scores)
        THEN Returned("no_candidate", {no_match.answer}, no_match.score,
                      no_match.source_url, normalized, raw, scores, 0)
        ELSE IF best_score < threshold
        THEN Returned("below_threshold", {low.answer}, low.score,
                      low.source_url, normalized, raw, scores, best_idx)
        ELSE IF best_idx > Len(examples)
        THEN Raised("IndexError", normalized, raw, scores)
        ELSE LET hit == matched(examples[best_idx], best_score)
             IN  Returned("matched", hit.answers, hit.score, hit.source_url,
                          normalized, raw, scores, best_idx)

-----------------------------------------------------------------------------
(* evaluate.py: leave-one-out evaluation *)

\* bug variant: the query's own row stays in the ranking
self_exclude_none(scores, query_idx) == scores

\* bug variant: the query's own row is set to 0.0, not to -inf
self_exclude_zero(scores, query_idx) ==
    [idx \in 1..Len(scores) |-> IF idx = query_idx THEN 0 ELSE scores[idx]]

\* line 58
self_exclude(scores, query_idx) ==
    [idx \in 1..Len(scores) |-> IF idx = query_idx THEN NegInf ELSE scores[idx]]

\* bug variant: the rates are percentages
rate_percent(count, total) ==
    IF total = 0 THEN 0 ELSE 100 * FDiv(F(count), F(total))

\* EvalResult.accuracy / EvalResult.fallback_rate
rate(count, total) == IF total = 0 THEN 0 ELSE FDiv(F(count), F(total))

\* one pass of the loop body of evaluate_method (lines 46-68) on the
\* counters e, for the example at query_idx
evaluate_one(payload, e, cosine) ==
    LET examples == payload.examples
        threshold == get(payload, "threshold", SCALE \div 4)
        query_idx == e.query_idx
        example == examples[query_idx]
        normalized == normalize_text(example.pattern)
        computed == compute_scores(normalized, payload, cosine)
        scores == self_exclude(computed.scores, query_idx)
        best_idx == argmax_first(scores)
        best_score == scores[best_idx]
        next == [e EXCEPT !.query_idx = query_idx + 1, !.last = "skipped",
                          !.scores = <<>>, !.best_idx = 0]
    IN  IF normalized = <<>> THEN next
        ELSE IF computed.raised # ""
        THEN [next EXCEPT !.raised = computed.raised, !.last = "raised"]
        ELSE IF computed.scores = <<>> THEN next
        ELSE IF query_idx > Len(computed.scores) \/ best_idx > Len(examples)
        THEN [next EXCEPT !.raised = "IndexError", !.last = "raised",
                          !.total = e.total + 1]
        ELSE IF best_score < threshold
        THEN [next EXCEPT !.total = e.total + 1, !.fallbacks = e.fallbacks + 1,
                          !.last = "fallback", !.scores = scores,
                          !.best_idx = best_idx]
        ELSE IF examples[best_idx].tag = example.tag
        THEN [next EXCEPT !.total = e.total + 1, !.correct = e.correct + 1,
                          !.last = "correct", !.scores = scores,
                          !.best_idx = best_idx]
        ELSE [next EXCEPT !.total = e.total + 1,
                          !.last = "wrong", !.scores = scores,
                          !.best_idx = best_idx]

-----------------------------------------------------------------------------
(* Defaults of the variables a specification does not use *)

NoIndex == [method |-> "none"]
NoCall == [done |-> FALSE]
NoEval == [running |-> FALSE]
NoNorm == [step |-> "idle"]
NoBm == [step |-> "idle"]
NoBool == [step |-> "idle"]
NoThreads == [step |-> "idle"]
NoChat == [step |-> "idle"]

-----------------------------------------------------------------------------
(* SpecNormalize: normalize_text applied once and then again to its own    *)
(* output, for every raw text over NormAlphabet of length <= MaxTextLen    *)

\* a, A, U+0438, U+0418, U+0434, space, "?": an English stopword and a
\* Russian one in both cases, a Cyrillic letter that is no stopword, and
\* two separators
NormAlphabet == {97, 65, 1080, 1048, 1076, 32, 63}

NormInit ==
    /\ pc = "normalize"
    /\ index = NoIndex
    /\ call = NoCall
    /\ ev = NoEval
    /\ bm = NoBm
    /\ bl = NoBool
    /\ th = NoThreads
    /\ chat = NoChat
    /\ \E x \in SeqsUpTo(NormAlphabet, MaxTextLen) :
          nrm = [step |-> "raw", x |-> x, once |-> <<>>, twice |-> <<>>]

NormalizeOnce ==
    /\ nrm.step = "raw"
    /\ nrm' = [nrm EXCEPT !.step = "once", !.once = normalize_text(nrm.x)]
    /\ UNCHANGED <<pc, index, call, ev, bm, bl, th, chat>>

NormalizeTwice ==
    /\ nrm.step = "once"
    /\ nrm' = [nrm EXCEPT !.step = "twice", !.twice = normalize_text(nrm.once)]
    /\ UNCHANGED <<pc, index, call, ev, bm, bl, th, chat>>

NormNext == NormalizeOnce \/ NormalizeTwice

SpecNormalize == NormInit /\ [][NormNext]_vars

-----------------------------------------------------------------------------
(* Spec: train an index, then either answer one query or evaluate it       *)

\* intents.json entries
IntentAccount ==
    [tag |-> <<97, 99, 99, 111, 117, 110, 116>>,              \* account
     patterns |-> << <<114, 101, 115, 101, 116, 32, 109, 121, 32,
                       112, 97, 115, 115, 119, 111, 114, 100>> >>,
                                                   \* reset my password
     responses |-> <<"Go to settings > security > reset.">>]

IntentWeather ==
    [tag |-> <<119, 101, 97, 116, 104, 101, 114>>,            \* weather
     patterns |-> << <<87, 104, 97, 116, 32, 105, 115, 32, 116, 104, 101,
                       32, 119, 101, 97, 116, 104, 101, 114, 63>>,
                                                   \* What is the weather?
                     <<72, 111, 119, 63>> >>,      \* How?
     responses |-> <<>>]

\* the intents.json files trained on: any of the two intents, in any order
IntentFiles ==
    { <<>>, <<IntentAccount>>, <<IntentWeather>>,
      <<IntentAccount, IntentWeather>>, <<IntentWeather, IntentAccount>> }

\* CSV rows as load_csv_qa_rows returns them
RowAccount ==
    [question |-> <<80, 97, 115, 115, 119, 111, 114, 100, 32,
                    114, 101, 115, 101, 116>>,     \* Password reset
     answer |-> "Use the reset link.",
     topic |-> <<65, 99, 99, 111, 117, 110, 116>>,            \* Account
     source_url |-> "https://example.org/account"]

RowFood ==
    [question |-> <<80, 105, 122, 122, 97, 63>>,              \* Pizza?
     answer |-> "Yes.",
     topic |-> <<102, 111, 111, 100>>,                        \* food
     source_url |-> ""]

RowPool == {RowAccount, RowFood}

\* --threshold: 0.0, 0.1, 0.25 (the default), 1.01
Thresholds == {0, SCALE \div 10, SCALE \div 4, SCALE + SCALE \div 100}

UserTexts ==
    { <<72, 111, 119, 32, 100, 111, 32, 73, 32, 114, 101, 115, 101, 116, 32,
        109, 121, 32, 112, 97, 115, 115, 119, 111, 114, 100, 63>>,
                                            \* How do I reset my password?
      <<119, 104, 97, 116, 32, 105, 115, 32, 116, 104, 101, 32,
        119, 101, 97, 116, 104, 101, 114>>, \* what is the weather
      <<72, 111, 119, 63>>,                 \* How?
      <<80, 97, 115, 115, 119, 111, 114, 100, 32,
        114, 101, 115, 101, 116>> }         \* Password reset

TopicFilters ==
    { TOPIC_ALL,
      <<97, 99, 99, 111, 117, 110, 116>>,   \* account
      <<119, 101, 97, 116, 104, 101, 114>>, \* weather
      <<102, 111, 111, 100>> }              \* food

\* what cosine_similarity may return against a matrix of n rows: every row
\* 0.0, every row 0.5, or one row 1.0 and the others 0.0
CosineRows(n) ==
    {[i \in 1..n |-> v] : v \in {0, SCALE \div 2}}
      \cup {[i \in 1..n |-> IF i = k THEN SCALE ELSE 0] : k \in 1..n}

CosineOutcomes(payload) ==
    IF payload.method \in {"tfidf", "bow"}
    THEN CosineRows(Len(payload.matrix))
    ELSE {<<>>}

Init ==
    /\ pc = "start"
    /\ index = NoIndex
    /\ call = NoCall
    /\ ev = NoEval
    /\ nrm = NoNorm
    /\ bm = NoBm
    /\ bl = NoBool
    /\ th = NoThreads
    /\ chat = NoChat

\* train.py: train_and_save, then chat.py: load_index
Train ==
    /\ pc = "start"
    /\ \E method \in SUPPORTED_METHODS, threshold \in Thresholds,
          intents \in IntentFiles,
          rows \in SeqsUpTo(RowPool, MaxRows) :
          \E t \in {train_and_save(method, threshold, [intents |-> intents], rows)} :
              IF t.raised # ""
              THEN pc' = "train_failed" /\ index' = NoIndex
              ELSE pc' = "loaded" /\ index' = t.payload
    /\ UNCHANGED <<call, ev, nrm, bm, bl, th, chat>>

\* chat.py: load_index on an artifact that holds no example (train_and_save
\* refuses to write one; the file comes from elsewhere)
LoadEmpty ==
    /\ pc = "start"
    /\ \E method \in {"bm25", "boolean"}, threshold \in Thresholds :
          index' = [method |-> method, examples |-> <<>>,
                    threshold |-> threshold, doc_tokens |-> <<>>,
                    bm25_index |-> build_bm25_index(<<>>)]
    /\ pc' = "loaded"
    /\ UNCHANGED <<call, ev, nrm, bm, bl, th, chat>>

\* chat.py: load_index on an artifact written when "how" was not yet in
\* EN_STOPWORDS: its first example, "How?", was indexed as the document
\* "how", and its pattern now normalises to ""
LoadStale ==
    /\ pc = "start"
    /\ \E method \in {"bm25", "boolean"}, threshold \in Thresholds :
          \E doc_tokens \in {<< <<(<<104, 111, 119>>)>>,
                                split(normalize_text(IntentAccount.patterns[1])) >>} :
              index' = [method |-> method,
                        examples |-> << [tag |-> IntentWeather.tag,
                                         pattern |-> IntentWeather.patterns[2],
                                         responses |-> IntentWeather.responses],
                                        [tag |-> IntentAccount.tag,
                                         pattern |-> IntentAccount.patterns[1],
                                         responses |-> IntentAccount.responses] >>,
                        threshold |-> threshold, doc_tokens |-> doc_tokens,
                        bm25_index |-> build_bm25_index(doc_tokens)]
    /\ pc' = "loaded"
    /\ UNCHANGED <<call, ev, nrm, bm, bl, th, chat>>

\* one call of get_answer_with_source on the loaded index
GetAnswer ==
    /\ pc = "loaded"
    /\ \E user_text \in UserTexts, topic_filter \in TopicFilters,
          cosine \in CosineOutcomes(index) :
          \E r \in {get_answer_with_source(user_text, index, topic_filter, cosine)} :
              \E answer \in r.answers :
                call' = [done |-> TRUE, user_text |-> user_text,
                         topic_filter |-> topic_filter, raised |-> r.raised,
                         kind |-> r.kind, answer |-> answer, score |-> r.score,
                         source_url |-> r.source_url,
                         normalized |-> r.normalized, raw |-> r.raw,
                         scores |-> r.scores, best_idx |-> r.best_idx]
    /\ pc' = "answered"
    /\ UNCHANGED <<index, ev, nrm, bm, bl, th, chat>>

\* evaluate_method, lines 38-44
EvalBegin ==
    /\ pc = "loaded"
    /\ pc' = "eval"
    /\ ev' = [running |-> TRUE, query_idx |-> 1, total |-> 0, correct |-> 0,
              fallbacks |-> 0, raised |-> "", last |-> "none",
              scores |-> <<>>, best_idx |-> 0,
              accuracy |-> 0, fallback_rate |-> 0]
    /\ UNCHANGED <<index, call, nrm, bm, bl, th, chat>>

\* evaluate_method, one iteration of the loop of line 46
EvalStep ==
    /\ pc = "eval"
    /\ ev.raised = ""
    /\ ev.query_idx <= Len(index.examples)
    /\ \E cosine \in CosineOutcomes(index) :
          ev' = evaluate_one(index, ev, cosine)
    /\ UNCHANGED <<pc, index, call, nrm, bm, bl, th, chat>>

\* evaluate_method, line 70, and the derived metrics of EvalResult
EvalEnd ==
    /\ pc = "eval"
    /\ ev.raised = ""
    /\ ev.query_idx > Len(index.examples)
    /\ pc' = "evaluated"
    /\ ev' = [ev EXCEPT !.running = FALSE,
                        !.accuracy = rate(ev.correct, ev.total),
                        !.fallback_rate = rate(ev.fallbacks, ev.total)]
    /\ UNCHANGED <<index, call, nrm, bm, bl, th, chat>>

Next == Train \/ LoadEmpty \/ LoadStale \/ GetAnswer \/ EvalBegin \/ EvalStep \/ EvalEnd

Spec == Init /\ [][Next]_vars

-----------------------------------------------------------------------------
(* SpecBm25: build_bm25_index on any list of documents (empty documents    *)
(* and the empty list included), then score_bm25 on the result             *)

\* x, y, z, w as tokens
BmDocPool == { <<>>, << <<120>> >>, << <<120>>, <<121>> >>,
               << <<121>>, <<121>>, <<122>> >> }

BmQueries == { <<>>, << <<120>> >>, << <<120>>, <<120>>, <<121>> >>,
               << <<119>> >> }

BmInit ==
    /\ pc = "bm25"
    /\ index = NoIndex
    /\ call = NoCall
    /\ ev = NoEval
    /\ nrm = NoNorm
    /\ bl = NoBool
    /\ th = NoThreads
    /\ chat = NoChat
    /\ \E docs \in SeqsUpTo(BmDocPool, MaxBmDocs) :
          bm = [step |-> "docs", doc_tokens |-> docs]

BmBuild ==
    /\ bm.step = "docs"
    /\ LET built == build_bm25_index(bm.doc_tokens)
       IN  bm' = [step |-> IF built.raised THEN "build_raised" ELSE "built",
                  doc_tokens |-> bm.doc_tokens, bm25_index |-> built]
    /\ UNCHANGED <<pc, index, call, ev, nrm, bl, th, chat>>

BmScore ==
    /\ bm.step = "built"
    /\ \E query_tokens \in BmQueries :
          LET r == score_bm25(query_tokens, bm.bm25_index)
          IN  bm' = [step |-> "scored", doc_tokens |-> bm.doc_tokens,
                     bm25_index |-> bm.bm25_index,
                     query_tokens |-> query_tokens,
                     raised |-> r.raised, scores |-> r.scores]
    /\ UNCHANGED <<pc, index, call, ev, nrm, bl, th, chat>>

BmNext == BmBuild \/ BmScore

SpecBm25 == BmInit /\ [][BmNext]_vars

-----------------------------------------------------------------------------
(* Properties of get_answer_with_source and evaluate_method (Spec)         *)

\* the examples the topic filter of the last call lets through, among the
\* rows compute_scores returned
OnTopic ==
    {idx \in 1..Len(call.raw) :
        \/ call.topic_filter = TOPIC_ALL
        \/ /\ idx <= Len(index.examples)
           /\ normalized_topic(index.examples[idx].tag) = call.topic_filter}

\* the on-topic examples holding the best on-topic score
TopOnTopic == {idx \in OnTopic : \A k \in OnTopic : call.raw[k] <= call.raw[idx]}

Least(S) == CHOOSE i \in S : \A j \in S : i <= j

\* the rows left in the ranking of the last evaluation pass, and the best
LeftIn == {idx \in 1..Len(ev.scores) : idx # ev.query_idx - 1}
TopLeftIn == {idx \in LeftIn : \A k \in LeftIn : ev.scores[k] <= ev.scores[idx]}

\* C1. Topic filter soundness: a call with a topic filter other than "all"
\* returns the fallback message, or the responses and source_url of an
\* example whose normalised tag equals the filter.
C1_TopicFilterSound ==
    (call.done /\ call.topic_filter # TOPIC_ALL) =>
        /\ call.raised = ""
        /\ \/ call.answer = FALLBACK_MESSAGE
           \/ /\ call.best_idx \in 1..Len(index.examples)
              /\ normalized_topic(index.examples[call.best_idx].tag)
                    = call.topic_filter
              /\ call.answer \in Range(index.examples[call.best_idx].responses)
              /\ call.source_url
                    = get(index.examples[call.best_idx], "source_url", "")

\* an answer was given from an on-topic example although an off-topic one
\* scored strictly higher
C1_Witness ==
    /\ call.done
    /\ call.topic_filter # TOPIC_ALL
    /\ call.answer # FALLBACK_MESSAGE
    /\ \E j \in 1..Len(call.raw) :
          j \notin OnTopic /\ call.raw[j] > call.raw[call.best_idx]

\* C2. Tie-break determinism: when two or more eligible examples share the
\* best score, the lowest of their indices is selected, in
\* get_answer_with_source (eligible = on topic) and in evaluate_method
\* (eligible = not the query's own row).
C2_TieBreakFirst ==
    /\ (call.done /\ Cardinality(TopOnTopic) >= 2) =>
          call.best_idx = Least(TopOnTopic)
    /\ (ev.running /\ ev.last \in {"fallback", "correct", "wrong"}
          /\ Cardinality(TopLeftIn) >= 2) =>
          ev.best_idx = Least(TopLeftIn)

\* a tie among on-topic examples below an off-topic example that scored at
\* least as high and comes first
C2_Witness ==
    /\ call.done
    /\ Cardinality(TopOnTopic) >= 2
    /\ call.raw[Least(TopOnTopic)] > 0
    /\ \E j \in 1..Len(call.raw) :
          /\ j \notin OnTopic
          /\ j < Least(TopOnTopic)
          /\ call.raw[j] >= call.raw[Least(TopOnTopic)]

\* C3. Threshold gating: when the query normalises to something, some
\* example is eligible and the best eligible score is below the threshold,
\* the call returns (fallback message, that best score, ""); a boolean index
\* with threshold 1.01 answers every call with the fallback message.
C3_ThresholdGating ==
    /\ (call.done /\ call.normalized # <<>> /\ OnTopic # {}
          /\ call.raw[Least(TopOnTopic)] < index.threshold) =>
          /\ call.raised = ""
          /\ call.answer = FALLBACK_MESSAGE
          /\ call.score = call.raw[Least(TopOnTopic)]
          /\ call.source_url = ""
    /\ (call.done /\ index.method = "boolean"
          /\ index.threshold = SCALE + SCALE \div 100) =>
          call.answer = FALLBACK_MESSAGE

\* a boolean index with threshold 1.01 gave the fallback with a full overlap
C3_Witness ==
    /\ call.done
    /\ index.method = "boolean"
    /\ index.threshold = SCALE + SCALE \div 100
    /\ call.answer = FALLBACK_MESSAGE
    /\ call.score = SCALE

\* C4. Alignment: on an index built by training, bm25 or boolean,
\* compute_scores returns one score per example for every query, and the
\* list keeps that length after topic filtering and after self-exclusion.
C4_Alignment ==
    index.method \in {"bm25", "boolean"} =>
        /\ pc = "loaded" =>
              \A user_text \in UserTexts \cup {<<>>} :
                 Len(compute_scores(normalize_text(user_text), index, <<>>).scores)
                    = Len(index.examples)
        /\ (call.done /\ call.normalized # <<>>) =>
              /\ Len(call.raw) = Len(index.examples)
              /\ Len(call.scores) = Len(index.examples)
        /\ (ev.running /\ ev.last \in {"fallback", "correct", "wrong"}) =>
              Len(ev.scores) = Len(index.examples)

\* a filtered call on a bm25 index trained on a file one of whose patterns
\* ("How?") normalises to nothing and was left out
C4_Witness ==
    /\ call.done
    /\ index.method = "bm25"
    /\ call.topic_filter # TOPIC_ALL
    /\ \E idx \in 1..Len(index.examples) :
          index.examples[idx].tag = IntentWeather.tag
    /\ Len(index.examples) >= 3
    /\ \E idx \in 1..Len(call.scores) : call.scores[idx] = NegInf
    /\ \E idx \in 1..Len(call.scores) : call.scores[idx] > 0

\* the index and the call of scenario A
ScenarioA ==
    /\ call.done
    /\ index.method = "boolean"
    /\ index.threshold = SCALE \div 10
    /\ index.examples = <<[tag |-> IntentAccount.tag,
                           pattern |-> IntentAccount.patterns[1],
                           responses |-> IntentAccount.responses]>>
    /\ call.topic_filter = TOPIC_ALL
    /\ call.user_text
          = <<72, 111, 119, 32, 100, 111, 32, 73, 32, 114, 101, 115, 101, 116,
              32, 109, 121, 32, 112, 97, 115, 115, 119, 111, 114, 100, 63>>

\* C6 as stated: scenario A scores 1.0 and returns the stored response.
C6_ScenarioA_Original ==
    ScenarioA =>
        /\ call.answer = IntentAccount.responses[1]
        /\ call.score = SCALE

\* C6. Scenario A: the query normalises to "do i reset my password" (only
\* "how" is a stopword), three of its five terms are in the document, the
\* overlap 0.6 clears the threshold 0.1 and the stored response is returned
\* with score 0.6.
C6_ScenarioA ==
    ScenarioA =>
        /\ call.normalized
              = <<100, 111, 32, 105, 32, 114, 101, 115, 101, 116, 32,
                  109, 121, 32, 112, 97, 115, 115, 119, 111, 114, 100>>
        /\ call.answer = IntentAccount.responses[1]
        /\ call.score = (6 * SCALE) \div 10
        /\ call.source_url = ""

C6_Witness == ScenarioA /\ call.raised = ""

\* three examples with pairwise distinct tags and pairwise disjoint
\* vocabularies, bm25, evaluation finished
ScenarioC ==
    /\ pc = "evaluated"
    /\ index.method = "bm25"
    /\ Len(index.examples) = 3
    /\ \A i, j \in 1..3 :
          i # j =>
            /\ index.examples[i].tag # index.examples[j].tag
            /\ Range(index.doc_tokens[i]) \cap Range(index.doc_tokens[j]) = {}

\* C7 as stated: every example falls back, whatever threshold >= 0.
C7_ScenarioC_Original ==
    (ScenarioC /\ index.threshold >= 0) =>
        ev.total = 3 /\ ev.fallbacks = 3 /\ ev.correct = 0

\* C7. Scenario C: total = 3 and correct = 0; with a threshold above 0 all
\* three fall back; with threshold 0 the best other score 0.0 is not below
\* the threshold and none falls back.
C7_ScenarioC ==
    ScenarioC =>
        /\ ev.total = 3
        /\ ev.correct = 0
        /\ index.threshold > 0 => ev.fallbacks = 3
        /\ index.threshold = 0 => ev.fallbacks = 0

C7_Witness == ScenarioC /\ index.threshold > 0 /\ ev.fallbacks = 3

\* C8. The score a call returns is never negative.
C8_ScoreNonNegative ==
    call.done => (call.raised = "" /\ call.score >= 0)

\* a bm25 call returned a positive score earned on a term that every
\* document of the corpus contains
C8_Witness ==
    /\ call.done
    /\ index.method = "bm25"
    /\ call.score > 0
    /\ call.best_idx > 0
    /\ \E t \in Range(split(call.normalized)) :
          \A i \in 1..Len(index.doc_tokens) : t \in Range(index.doc_tokens[i])

-----------------------------------------------------------------------------
(* Properties of normalize_text (SpecNormalize)                            *)

\* C5 as stated: normalising twice gives what normalising once gives.
C5_Idempotent_Original ==
    nrm.step = "twice" => nrm.twice = nrm.once

\* C5. Normalisation is idempotent on every text that has no Cyrillic
\* letter or whose normalisation still has one; otherwise the second pass
\* switches to the English stopword table and may remove more.
C5_Idempotent ==
    (/\ nrm.step = "twice"
     /\ \/ ~contains_cyrillic(nrm.x)
        \/ contains_cyrillic(nrm.once))
    => nrm.twice = nrm.once

\* a mixed text whose first pass changes it and keeps an English stopword
\* next to a Cyrillic token, and which the second pass leaves alone
C5_Witness ==
    /\ nrm.step = "twice"
    /\ contains_cyrillic(nrm.x)
    /\ contains_cyrillic(nrm.once)
    /\ nrm.once # nrm.x
    /\ \E t \in Range(tokenize(nrm.once)) : t \in EN_STOPWORDS
    /\ nrm.twice = nrm.once

-----------------------------------------------------------------------------
(* Properties of build_bm25_index and score_bm25 (SpecBm25)                *)

\* C10. BM25 zero-length guard: build_bm25_index([]) returns the empty
\* index with avg_doc_length 0; score_bm25 on it returns [] for every
\* query; and neither function ever divides by zero, whatever the corpus.
C10_Bm25ZeroGuard ==
    /\ bm.step # "build_raised"
    /\ (bm.step \in {"built", "scored"} /\ bm.doc_tokens = <<>>) =>
          /\ DOMAIN bm.bm25_index.idf = {}
          /\ bm.bm25_index.doc_term_freqs = <<>>
          /\ bm.bm25_index.doc_lengths = <<>>
          /\ bm.bm25_index.avg_doc_length = 0
    /\ bm.step = "scored" =>
          /\ ~bm.raised
          /\ Len(bm.scores) = Len(bm.doc_tokens)

\* a non-empty query scored against the index of no document
C10_Witness ==
    /\ bm.step = "scored"
    /\ bm.doc_tokens = <<>>
    /\ bm.query_tokens # <<>>
    /\ bm.scores = <<>>

-----------------------------------------------------------------------------
(* SpecBoolean: score_boolean on a list of query tokens, then on the same  *)
(* tokens reordered or with one of them repeated                           *)

\* x, y, z as tokens
BoolTokens == { <<120>>, <<121>>, <<122>> }

BoolDocPool == { <<>>, << <<120>> >>, << <<120>>, <<121>> >>,
                 << <<121>>, <<121>>, <<122>> >> }

\* the query tokens in another order
Reorderings(query_tokens) ==
    {[i \in 1..Len(query_tokens) |-> query_tokens[p[i]]] :
        p \in Permutations(1..Len(query_tokens))}

\* the query tokens with the token at position k repeated at position j
Duplications(query_tokens) ==
    {[i \in 1..(Len(query_tokens) + 1) |->
        IF i < j THEN query_tokens[i]
        ELSE IF i = j THEN query_tokens[k]
        ELSE query_tokens[i - 1]] :
        j \in 1..(Len(query_tokens) + 1), k \in 1..Len(query_tokens)}

BoolInit ==
    /\ pc = "boolean"
    /\ index = NoIndex
    /\ call = NoCall
    /\ ev = NoEval
    /\ nrm = NoNorm
    /\ bm = NoBm
    /\ th = NoThreads
    /\ chat = NoChat
    /\ \E query_tokens \in SeqsUpTo(BoolTokens, MaxQueryLen),
          doc_tokens \in SeqsUpTo(BoolDocPool, MaxBoolDocs) :
          bl = [step |-> "input", query_tokens |-> query_tokens,
                doc_tokens |-> doc_tokens]

BoolScore ==
    /\ bl.step = "input"
    /\ bl' = [step |-> "scored", query_tokens |-> bl.query_tokens,
              doc_tokens |-> bl.doc_tokens,
              scores |-> score_boolean(bl.query_tokens, bl.doc_tokens)]
    /\ UNCHANGED <<pc, index, call, ev, nrm, bm, th, chat>>

\* the same documents scored for a reordering or a duplication of the query
BoolScoreAgain ==
    /\ bl.step = "scored"
    /\ \E variant \in Reorderings(bl.query_tokens)
                        \cup Duplications(bl.query_tokens) :
          bl' = [step |-> "rescored", query_tokens |-> bl.query_tokens,
                 doc_tokens |-> bl.doc_tokens, scores |-> bl.scores,
                 variant |-> variant,
                 variant_scores |-> score_boolean(variant, bl.doc_tokens)]
    /\ UNCHANGED <<pc, index, call, ev, nrm, bm, th, chat>>

BoolNext == BoolScore \/ BoolScoreAgain

SpecBoolean == BoolInit /\ [][BoolNext]_vars

-----------------------------------------------------------------------------
(* Properties of score_boolean (SpecBoolean)                               *)

\* C11: for a non-empty query token list, score_boolean returns one score
\* per document, each equal to |unique query terms that the document has| /
\* |unique query terms| and within [0, 1]; scoring a reordering of the query
\* tokens, or the tokens with one of them repeated, gives the same scores.
C11_BooleanBounds ==
    /\ (bl.step \in {"scored", "rescored"} /\ bl.query_tokens # <<>>) =>
          /\ Len(bl.scores) = Len(bl.doc_tokens)
          /\ \A i \in 1..Len(bl.scores) :
                /\ bl.scores[i] * Cardinality(Range(bl.query_tokens))
                     <= SCALE * Cardinality(Range(bl.query_tokens)
                                              \cap Range(bl.doc_tokens[i]))
                /\ (bl.scores[i] + 1) * Cardinality(Range(bl.query_tokens))
                     > SCALE * Cardinality(Range(bl.query_tokens)
                                             \cap Range(bl.doc_tokens[i]))
                /\ bl.scores[i] >= 0
                /\ bl.scores[i] <= SCALE
    /\ bl.step = "rescored" => bl.variant_scores = bl.scores

\* a query with a repeated token is scored 1/2 against one document and 0
\* against another, and a variant of different length scores the same
C11_Witness ==
    /\ bl.step = "rescored"
    /\ Len(bl.query_tokens) > Cardinality(Range(bl.query_tokens))
    /\ Len(bl.variant) # Len(bl.query_tokens)
    /\ \E i, j \in 1..Len(bl.scores) :
          bl.scores[i] = SCALE \div 2 /\ bl.scores[j] = 0

-----------------------------------------------------------------------------
(* Further properties of get_answer_with_source and evaluate_method (Spec) *)

\* C12: when the best score left by the topic filter is at or above the
\* threshold and the example holding it has an empty responses list, the
\* call raises nothing and returns the fallback message, that best score
\* and the example's source_url ("" when the example has none).
C12_EmptyResponses ==
    (/\ call.done
     /\ call.normalized # <<>>
     /\ TopOnTopic # {}
     /\ Least(TopOnTopic) <= Len(index.examples)
     /\ call.raw[Least(TopOnTopic)] >= index.threshold
     /\ index.examples[Least(TopOnTopic)].responses = <<>>) =>
        /\ call.raised = ""
        /\ call.answer = FALLBACK_MESSAGE
        /\ call.score = call.raw[Least(TopOnTopic)]
        /\ call.source_url = get(index.examples[Least(TopOnTopic)], "source_url", "")

\* an example without responses is matched with a positive score
C12_Witness ==
    /\ call.done
    /\ call.raised = ""
    /\ call.kind = "matched"
    /\ index.examples[call.best_idx].responses = <<>>
    /\ call.answer = FALLBACK_MESSAGE
    /\ call.score > 0
    /\ call.score >= index.threshold

-----------------------------------------------------------------------------
(* Further properties of build_bm25_index and score_bm25 (SpecBm25)        *)

\* the terms of the built index found in every document
InEveryDoc ==
    {t \in DOMAIN bm.bm25_index.idf :
        \A i \in 1..Len(bm.doc_tokens) : t \in Range(bm.doc_tokens[i])}

\* C14 as stated: some corpus of at most MaxBmDocs documents, the one at
\* hand included, has a term whose stored idf is below 0.
C14_IdfCanBeNegative_Original ==
    \E docs \in {bm.doc_tokens} \cup SeqsUpTo(BmDocPool, MaxBmDocs) :
        \E t \in DOMAIN build_bm25_index(docs).idf :
            build_bm25_index(docs).idf[t] < 0

\* C14: every idf value build_bm25_index stores is above 0, also for a term
\* found in every document, and no score of score_bm25 is below 0.
C14_IdfPositive ==
    /\ bm.step \in {"built", "scored"} =>
          \A t \in DOMAIN bm.bm25_index.idf : bm.bm25_index.idf[t] > 0
    /\ bm.step = "scored" =>
          \A i \in 1..Len(bm.scores) : bm.scores[i] >= 0

\* two or more documents share a term, and a query on it scores above 0
C14_Witness ==
    /\ bm.step = "scored"
    /\ Len(bm.doc_tokens) >= 2
    /\ \E t \in InEveryDoc :
          /\ t \in Range(bm.query_tokens)
          /\ bm.bm25_index.idf[t] > 0
          /\ bm.bm25_index.idf[t] < SCALE \div 2
    /\ \A i \in 1..Len(bm.scores) : bm.scores[i] > 0

\* C15: in every counted pass of evaluate_method the query's own row holds
\* -inf when the ranking is made, and a pass counted correct chose another
\* row; evaluating an index of exactly one example, whose pattern has a
\* non-empty normalization, ends with total = 1, fallbacks = 1, correct = 0.
C15_SelfExclusion ==
    /\ (pc = "eval" /\ ev.last \in {"fallback", "correct", "wrong"}) =>
          /\ ev.scores[ev.query_idx - 1] = NegInf
          /\ ev.last = "correct" => ev.best_idx # ev.query_idx - 1
    /\ (/\ pc = "evaluated"
        /\ Len(index.examples) = 1
        /\ normalize_text(index.examples[1].pattern) # <<>>) =>
          /\ ev.raised = ""
          /\ ev.total = 1
          /\ ev.fallbacks = 1
          /\ ev.correct = 0

\* a one-example index with threshold 0.0 has been evaluated
C15_Witness ==
    /\ pc = "evaluated"
    /\ Len(index.examples) = 1
    /\ index.threshold = 0
    /\ ev.total = 1
    /\ ev.fallbacks = 1
    /\ ev.best_idx = 1
    /\ ev.scores = <<NegInf>>

\* the counters of evaluate_method between two passes of its loop
CountersInRange ==
    pc \in {"eval", "evaluated"} =>
        /\ ev.correct >= 0
        /\ ev.fallbacks >= 0
        /\ ev.correct + ev.fallbacks <= ev.total
        /\ ev.total <= ev.query_idx - 1

\* the metrics of EvalResult once evaluate_method has returned
RatesInRange ==
    pc = "evaluated" =>
        /\ ev.accuracy >= 0 /\ ev.accuracy <= SCALE
        /\ ev.fallback_rate >= 0 /\ ev.fallback_rate <= SCALE
        /\ ev.accuracy + ev.fallback_rate <= SCALE
        /\ ev.total = 0 => (ev.accuracy = 0 /\ ev.fallback_rate = 0)

\* what one pass of the loop does to the counters
OnePassCounts ==
    (pc = "eval" /\ pc' = "eval" /\ ev'.query_idx = ev.query_idx + 1) =>
        /\ ev'.total - ev.total \in {0, 1}
        /\ ev'.correct - ev.correct \in {0, 1}
        /\ ev'.fallbacks - ev.fallbacks \in {0, 1}
        /\ (ev'.correct - ev.correct) + (ev'.fallbacks - ev.fallbacks)
             <= ev'.total - ev.total
        /\ normalize_text(index.examples[ev.query_idx].pattern) = <<>> =>
              /\ ev'.total = ev.total
              /\ ev'.correct = ev.correct
              /\ ev'.fallbacks = ev.fallbacks

\* C16: after any number of passes, correct + fallbacks <= total <= examples
\* processed; one pass adds at most 1 to total and to at most one of correct
\* and fallbacks, and nothing for a pattern that normalises to ""; accuracy
\* and fallback_rate lie in [0, 1], sum to at most 1, and are 0.0 when
\* total is 0.
C16_EvalCounters ==
    /\ [](CountersInRange /\ RatesInRange)
    /\ [][OnePassCounts]_vars

\* an evaluation that skipped one example and ranked the other wrong
C16_Witness ==
    /\ pc = "evaluated"
    /\ Len(index.examples) = 2
    /\ normalize_text(index.examples[1].pattern) = <<>>
    /\ ev.total = 1
    /\ ev.correct = 0
    /\ ev.fallbacks = 0
    /\ ev.accuracy = 0

-----------------------------------------------------------------------------
(* SpecThreads: two calls, each get_answer_with_source or one pass of the  *)
(* loop of evaluate_method, run step by step in any interleaving on one    *)
(* loaded index. Score lists are objects of a heap, named by their address *)

Threads == {1, 2}

\* bug variant: the scorer hands out one list it keeps between calls
new_list_cached(heap) == 1

\* scores = [] / [0.0 for ...] / .tolist(): the address of a list object
\* that no other reference names
new_list(heap) == Len(heap) + 1

\* the heap with the list at address ref holding scores
store(heap, ref, scores) ==
    IF ref <= Len(heap) THEN [heap EXCEPT ![ref] = scores]
    ELSE Append(heap, scores)

\* chat.py 192-205 on the list the call holds
answer_finish(scores, index_payload) ==
    LET examples == index_payload.examples
        threshold == get(index_payload, "threshold", SCALE \div 4)
        best_idx == argmax_first(scores)
        best_score == scores[best_idx]
        low == below_threshold(best_score)
        hit == matched(examples[best_idx], best_score)
    IN  IF no_candidate(scores)
        THEN [raised |-> "", kind |-> "no_candidate",
              answers |-> {no_match.answer}, score |-> no_match.score,
              source_url |-> no_match.source_url, best_idx |-> 0]
        ELSE IF best_score < threshold
        THEN [raised |-> "", kind |-> "below_threshold",
              answers |-> {low.answer}, score |-> low.score,
              source_url |-> low.source_url, best_idx |-> best_idx]
        ELSE IF best_idx > Len(examples)
        THEN [raised |-> "IndexError", kind |-> "raised", answers |-> {""},
              score |-> 0, source_url |-> "", best_idx |-> 0]
        ELSE [raised |-> "", kind |-> "matched", answers |-> hit.answers,
              score |-> hit.score, source_url |-> hit.source_url,
              best_idx |-> best_idx]

\* evaluate.py 60-68 on the list the pass holds
eval_finish(scores, payload, query_idx) ==
    LET examples == payload.examples
        threshold == get(payload, "threshold", SCALE \div 4)
        best_idx == argmax_first(scores)
        best_score == scores[best_idx]
    IN  [last |-> IF best_score < threshold THEN "fallback"
                  ELSE IF examples[best_idx].tag = examples[query_idx].tag
                  THEN "correct" ELSE "wrong",
         best_idx |-> best_idx]

\* the indexes the calls run on: one per method, three examples each
ThreadIndexes ==
    {train_and_save(method, SCALE \div 10,
                    [intents |-> <<IntentAccount, IntentWeather>>],
                    <<RowAccount>>).payload : method \in SUPPORTED_METHODS}

\* the queries of the answering calls
ThreadTexts ==
    { <<119, 104, 97, 116, 32, 105, 115, 32, 116, 104, 101, 32,
        119, 101, 97, 116, 104, 101, 114>>, \* what is the weather
      <<72, 111, 119, 63>>,                 \* How?
      <<80, 97, 115, 115, 119, 111, 114, 100, 32,
        114, 101, 115, 101, 116>> }         \* Password reset

\* what cosine_similarity returns to a call: every row 0.5, or the first
\* row 1.0 and the others 0.0
ThreadCosine(payload) ==
    IF payload.method \in {"tfidf", "bow"}
    THEN {[i \in 1..Len(payload.matrix) |-> SCALE \div 2],
          [i \in 1..Len(payload.matrix) |-> IF i = 1 THEN SCALE ELSE 0]}
    ELSE {<<>>}

\* what a call is asked to do
ThreadInputs(payload) ==
    {[op |-> "answer", user_text |-> user_text, topic_filter |-> topic_filter,
      query_idx |-> 0, cosine |-> cosine] :
        user_text \in ThreadTexts,
        topic_filter \in {TOPIC_ALL, IntentAccount.tag, IntentWeather.tag},
        cosine \in ThreadCosine(payload)}
    \cup
    {[op |-> "eval", user_text |-> <<>>, topic_filter |-> TOPIC_ALL,
      query_idx |-> query_idx, cosine |-> cosine] :
        query_idx \in 1..Len(payload.examples),
        cosine \in ThreadCosine(payload)}

ThreadsInit ==
    /\ pc = "threads"
    /\ call = NoCall
    /\ ev = NoEval
    /\ nrm = NoNorm
    /\ bm = NoBm
    /\ bl = NoBool
    /\ chat = NoChat
    /\ index \in ThreadIndexes
    /\ \E in1 \in ThreadInputs(index), in2 \in ThreadInputs(index) :
          th = [step |-> "run", heap |-> <<>>, overlapped |-> FALSE,
                t |-> [t \in Threads |->
                         [in |-> IF t = 1 THEN in1 ELSE in2, at |-> "start",
                          ref |-> 0, normalized |-> <<>>,
                          result |-> [kind |-> "none"]]]]

\* the text the call normalises: the user's, or the example's pattern
thread_text(in) ==
    IF in.op = "answer" THEN in.user_text
    ELSE index.examples[in.query_idx].pattern

\* chat.py 179-185 / evaluate.py 48-54: normalise, return early or score
ThreadScore(t) ==
    /\ th.t[t].at = "start"
    /\ \E normalized \in {normalize_text(thread_text(th.t[t].in))} :
          IF normalized = <<>>
          THEN th' = [th EXCEPT !.t[t].at = "done",
                         !.t[t].result =
                             IF th.t[t].in.op = "answer"
                             THEN [raised |-> "", kind |-> "empty_query",
                                   answers |-> {no_match.answer},
                                   score |-> no_match.score,
                                   source_url |-> no_match.source_url,
                                   best_idx |-> 0]
                             ELSE [last |-> "skipped", best_idx |-> 0]]
          ELSE \E computed \in {compute_scores(normalized, index,
                                              th.t[t].in.cosine)} :
                  \E ref \in {new_list(th.heap)} :
                      th' = [th EXCEPT !.t[t].at = "scored",
                                !.t[t].ref = ref,
                                !.t[t].normalized = normalized,
                                !.heap = store(th.heap, ref, computed.scores)]
    /\ UNCHANGED <<pc, index, call, ev, nrm, bm, bl, chat>>

\* the other call holds a list and has not returned
in_flight(t) == \E u \in Threads \ {t} : th.t[u].at \in {"scored", "masked"}

\* chat.py 187-190 / evaluate.py 58: the -inf overwrites, in place
ThreadMask(t) ==
    /\ th.t[t].at = "scored"
    /\ \E ref \in {th.t[t].ref} :
          th' = [th EXCEPT
                   !.t[t].at = "masked",
                   !.overlapped = th.overlapped \/ in_flight(t),
                   !.heap[ref] =
                       IF th.t[t].in.op = "answer"
                       THEN apply_topic_filter(th.heap[ref], index.examples,
                                               th.t[t].in.topic_filter)
                       ELSE self_exclude(th.heap[ref], th.t[t].in.query_idx)]
    /\ UNCHANGED <<pc, index, call, ev, nrm, bm, bl, chat>>

\* chat.py 192-205 / evaluate.py 60-68: rank the list and return
ThreadFinish(t) ==
    /\ th.t[t].at = "masked"
    /\ th' = [th EXCEPT
                !.t[t].at = "done",
                !.t[t].result =
                    IF th.t[t].in.op = "answer"
                    THEN answer_finish(th.heap[th.t[t].ref], index)
                    ELSE eval_finish(th.heap[th.t[t].ref], index,
                                     th.t[t].in.query_idx)]
    /\ UNCHANGED <<pc, index, call, ev, nrm, bm, bl, chat>>

ThreadsNext ==
    \E t \in Threads : ThreadScore(t) \/ ThreadMask(t) \/ ThreadFinish(t)

SpecThreads == ThreadsInit /\ [][ThreadsNext]_vars

-----------------------------------------------------------------------------
(* Properties of interleaved calls (SpecThreads)                           *)

\* what the call of thread t returns when it runs alone
Alone(t) ==
    LET in == th.t[t].in
        r == get_answer_with_source(in.user_text, index, in.topic_filter,
                                    in.cosine)
        e == evaluate_one(index,
                          [running |-> TRUE, query_idx |-> in.query_idx,
                           total |-> 0, correct |-> 0, fallbacks |-> 0,
                           raised |-> "", last |-> "none", scores |-> <<>>,
                           best_idx |-> 0, accuracy |-> 0,
                           fallback_rate |-> 0],
                          in.cosine)
    IN  IF in.op = "answer"
        THEN [raised |-> r.raised, kind |-> r.kind, answers |-> r.answers,
              score |-> r.score, source_url |-> r.source_url,
              best_idx |-> r.best_idx]
        ELSE [last |-> e.last, best_idx |-> e.best_idx]

\* each call in progress holds a list of its own
OwnLists ==
    \A t, u \in Threads :
        (t # u /\ th.t[t].ref # 0 /\ th.t[u].ref # 0) => th.t[t].ref # th.t[u].ref

\* a step writes, of the heap, at most the list of the call that takes it
WritesOwnList ==
    \A a \in 1..Len(th.heap) :
        th'.heap[a] # th.heap[a] => \E t \in Threads :
            th.t[t].ref = a /\ th'.t[t].at # th.t[t].at

\* C13: no step of get_answer_with_source or of a pass of evaluate_method
\* changes the index payload; the -inf overwrites go to a list the call
\* allocated itself; and in every interleaving of two calls on one index
\* each call returns what it returns when run alone.
C13_ReadOnlyIndex ==
    /\ [](OwnLists /\ \A t \in Threads :
                         th.t[t].at = "done" => th.t[t].result = Alone(t))
    /\ [][index' = index /\ WritesOwnList]_vars

\* both calls returned after masking different rows while the other call
\* held its list
C13_Witness ==
    /\ \A t \in Threads : th.t[t].at = "done" /\ th.t[t].ref # 0
    /\ th.overlapped
    /\ th.heap[1] # th.heap[2]
    /\ \E i \in 1..Len(th.heap[1]) : th.heap[1][i] = NegInf /\ th.heap[2][i] # NegInf
    /\ \E i \in 1..Len(th.heap[2]) : th.heap[2][i] = NegInf /\ th.heap[1][i] # NegInf
    /\ th.t[1].in.op # th.t[2].in.op

-----------------------------------------------------------------------------
(* SpecChat: run_chat on a loaded index: the initial topic prompt, then    *)
(* the command loop, one action per line the user enters                   *)

\* the loop is followed for at most MaxTurns lines of input
MaxTurns == 3

QUIT_COMMANDS == {<<47, 113, 117, 105, 116>>, <<113, 117, 105, 116>>, <<101, 120, 105, 116>>, <<98, 121, 101>>}

CMD_HELP == <<47, 104, 101, 108, 112>>
CMD_TOPICS == <<47, 116, 111, 112, 105, 99, 115>>
CMD_LIST == <<47, 108, 105, 115, 116>>
CMD_TOPIC == <<47, 116, 111, 112, 105, 99>>
CMD_CLEAR == <<47, 99, 108, 101, 97, 114>>

\* get_available_topics, as the set of the keys its sorted list holds
get_available_topics(index_payload) ==
    LET examples == get(index_payload, "examples", <<>>)
        topics == {normalized_topic(get(examples[i], "tag", TAG_GENERAL)) :
                      i \in 1..Len(examples)}
    IN  {topic \in topics : topic # <<>>}

\* choose_initial_topic, for the line the user enters at the prompt
choose_initial_topic(index_payload, line) ==
    LET topics == get_available_topics(index_payload)
        selected == lower(strip(line))
        candidate == normalized_topic(selected)
    IN  IF selected = <<>> \/ selected = TOPIC_ALL THEN TOPIC_ALL
        ELSE IF candidate \notin topics THEN TOPIC_ALL
        ELSE candidate

\* text.split(maxsplit=1): the first word, and what follows the whitespace
\* after it, if anything does
split_once(text) ==
    LET body == lstrip(text)
        stops == {i \in 1..Len(body) : is_space(body[i])}
        cut == IF stops = {} THEN Len(body) + 1
               ELSE CHOOSE i \in stops : \A j \in stops : i <= j
        rest == lstrip(SubSeq(body, cut, Len(body)))
    IN  IF body = <<>> THEN <<>>
        ELSE IF rest = <<>> THEN <<SubSeq(body, 1, cut - 1)>>
        ELSE <<SubSeq(body, 1, cut - 1), rest>>

\* line 255
is_topic_command(command) == startswith(command, CMD_TOPIC)

\* lines 262-271: the active topic after "/topic <name>"
switch_topic(active_topic, name, index_payload) ==
    LET requested == normalized_topic(name)
        available_topics == get_available_topics(index_payload)
    IN  IF requested = TOPIC_ALL THEN TOPIC_ALL
        ELSE IF requested \in available_topics THEN requested
        ELSE active_topic

\* one pass of the loop of run_chat (lines 240-286) on the line entered:
\* what the pass does, and the active topic after it
chat_turn(line, active_topic, index_payload) ==
    LET user_text == strip(line)
        command == lower(user_text)
        parts == split_once(user_text)
    IN  IF command \in QUIT_COMMANDS
        THEN [did |-> "quit", active_topic |-> active_topic]
        ELSE IF command = CMD_HELP
        THEN [did |-> "help", active_topic |-> active_topic]
        ELSE IF command = CMD_TOPICS
        THEN [did |-> "topics", active_topic |-> active_topic]
        ELSE IF command = CMD_LIST
        THEN [did |-> "list", active_topic |-> active_topic]
        ELSE IF is_topic_command(command)
        THEN IF Len(parts) = 1
             THEN [did |-> "show_topic", active_topic |-> active_topic]
             ELSE [did |-> "topic",
                   active_topic |-> switch_topic(active_topic, parts[2],
                                                 index_payload)]
        ELSE IF command = CMD_CLEAR
        THEN [did |-> "clear", active_topic |-> active_topic]
        ELSE IF user_text = <<>>
        THEN [did |-> "tip", active_topic |-> active_topic]
        ELSE [did |-> "answer", active_topic |-> active_topic]

\* the lines entered at the prompt of the loop
ChatLines ==
    { <<47, 113, 117, 105, 116>>,
          \* "/quit"
      <<66, 121, 101>>,
          \* "Bye"
      <<47, 104, 101, 108, 112>>,
          \* "/help"
      <<47, 116, 111, 112, 105, 99, 115>>,
          \* "/topics"
      <<47, 108, 105, 115, 116>>,
          \* "/list"
      <<47, 99, 108, 101, 97, 114>>,
          \* "/clear"
      <<>>,
          \* ""
      <<47, 116, 111, 112, 105, 99>>,
          \* "/topic"
      <<47, 116, 111, 112, 105, 99, 32, 97, 108, 108>>,
          \* "/topic all"
      <<47, 116, 111, 112, 105, 99, 32, 87, 101, 98, 95, 65, 99, 99, 111, 117, 110, 116>>,
          \* "/topic Web_Account"
      <<47, 84, 79, 80, 73, 67, 32, 119, 101, 97, 116, 104, 101, 114>>,
          \* "/TOPIC weather"
      <<47, 116, 111, 112, 105, 99, 32, 110, 111, 115, 117, 99, 104>>,
          \* "/topic nosuch"
      <<47, 116, 111, 112, 105, 99, 115, 32, 97, 99, 99, 111, 117, 110, 116>>,
          \* "/topics account"
      <<119, 104, 97, 116, 32, 105, 115, 32, 116, 104, 101, 32, 119, 101, 97, 116, 104, 101, 114>>,
          \* "what is the weather"
      <<80, 97, 115, 115, 119, 111, 114, 100, 32, 114, 101, 115, 101, 116>> }
          \* "Password reset"

\* the lines entered at the initial topic prompt
TopicLines ==
    { <<>>,
          \* ""
      <<65, 76, 76>>,
          \* "ALL"
      <<65, 99, 99, 111, 117, 110, 116>>,
          \* "Account"
      <<119, 101, 98, 95, 119, 101, 97, 116, 104, 101, 114>>,
          \* "web_weather"
      <<110, 111, 115, 117, 99, 104>> }
          \* "nosuch"

\* the indexes run_chat loads: three examples, topics account and weather
ChatIndexes ==
    {train_and_save(method, SCALE \div 10,
                    [intents |-> <<IntentAccount, IntentWeather>>],
                    <<RowAccount>>).payload : method \in {"bm25", "boolean"}}

\* run_chat, lines 228-235
ChatInit ==
    /\ pc = "chat"
    /\ call = NoCall
    /\ ev = NoEval
    /\ nrm = NoNorm
    /\ bm = NoBm
    /\ bl = NoBool
    /\ th = NoThreads
    /\ index \in ChatIndexes
    /\ chat = [step |-> "choose", active_topic |-> <<>>, line |-> <<>>,
               did |-> "none", turns |-> 0, answer |-> [kind |-> "none"]]

\* run_chat, line 236
ChatChooseTopic ==
    /\ chat.step = "choose"
    /\ \E line \in TopicLines :
          chat' = [chat EXCEPT !.step = "loop", !.line = line,
                               !.did = "choose",
                               !.active_topic = choose_initial_topic(index, line)]
    /\ UNCHANGED <<pc, index, call, ev, nrm, bm, bl, th>>

\* run_chat, one pass of the loop of line 239
ChatTurn ==
    /\ chat.step = "loop"
    /\ chat.turns < MaxTurns
    /\ \E line \in ChatLines :
          \E r \in {chat_turn(line, chat.active_topic, index)} :
              chat' = [step |-> IF r.did = "quit" THEN "ended" ELSE "loop",
                       active_topic |-> r.active_topic,
                       line |-> line, did |-> r.did,
                       turns |-> chat.turns + 1,
                       answer |->
                          IF r.did # "answer" THEN [kind |-> "none"]
                          ELSE LET a == get_answer_with_source(
                                           strip(line), index,
                                           chat.active_topic, <<>>)
                               IN  [kind |-> a.kind, score |-> a.score,
                                    source_url |-> a.source_url,
                                    best_idx |-> a.best_idx]]
    /\ UNCHANGED <<pc, index, call, ev, nrm, bm, bl, th>>

ChatNext == ChatChooseTopic \/ ChatTurn

SpecChat == ChatInit /\ [][ChatNext]_vars

-----------------------------------------------------------------------------
(* Properties of run_chat (SpecChat)                                       *)

\* the line is "/topic <name>": its first word is /topic, a name follows
TopicCommand(line) ==
    /\ Len(split_once(strip(line))) = 2
    /\ lower(split_once(strip(line))[1]) = CMD_TOPIC

\* the name a "/topic <name>" line asks for, as a topic key
RequestedTopic(line) == normalized_topic(split_once(strip(line))[2])

\* the active topic is "all" or a topic of the index
ActiveTopicValid ==
    chat.step \in {"loop", "ended"} =>
        chat.active_topic \in {TOPIC_ALL} \cup get_available_topics(index)

\* a pass of the loop changes the active topic only on "/topic <name>" with
\* a name that is "all" or a topic of the index, and then to that name
ChangesOnlyOnTopicCommand ==
    (chat.step = "loop" /\ chat'.active_topic # chat.active_topic) =>
        /\ TopicCommand(chat'.line)
        /\ RequestedTopic(chat'.line)
             \in {TOPIC_ALL} \cup get_available_topics(index)
        /\ chat'.active_topic = RequestedTopic(chat'.line)

\* the pass that reads a quit command answers nothing and is the last one
QuitEnds ==
    /\ (chat.step = "loop" /\ chat'.did = "quit") =>
          chat'.step = "ended" /\ chat'.answer.kind = "none"
    /\ chat.step = "ended" => chat' = chat

\* C17: the active topic of run_chat is always "all" or an available topic;
\* it changes only on "/topic <name>" whose normalized name is "all" or an
\* available topic, and stays as it is on an unknown name and on every other
\* command or question; after a quit command the loop ends without an answer.
C17_ChatTopicState ==
    /\ []ActiveTopicValid
    /\ [][ChangesOnlyOnTopicCommand /\ QuitEnds]_vars

=============================================================================
